---- MODULE Spec2Model ----
(***************************************************************************)
(* Model of the QQ channel adapter (OneBot 11 over NapCatQQ).              *)
(*                                                                         *)
(* Part 1: the event monitor, monitorQQProvider (src/src/qq/index.ts       *)
(* lines 63-151): one closure per started account holding ws,              *)
(* reconnectTimer and isClosing, the four socket handlers installed by     *)
(* connect(), the abort listener and the returned close().  The "ws"       *)
(* library and the Node timer queue are the environment: sockets open,     *)
(* fail and close, frames arrive, timers fire, callbacks settle.           *)
(*                                                                         *)
(* Part 2: the outbound side: sendMessageQQ and the two senders (send.ts), *)
(* the plugin's outbound and pairing adapters (channels/plugins/qq.ts),    *)
(* and dispatchQQMessage with the message context it is given              *)
(* (message-dispatch.ts, message-context.ts).  The NapCat HTTP bridge and  *)
(* the shared reply pipeline are the environment.                          *)
(*                                                                         *)
(* Part 3: the account resolver (src/src/qq/accounts.ts).                  *)
(*                                                                         *)
(* Part 4: the parser, parseQQInboundMessage (message-context.ts), on wire *)
(* events with missing and malformed fields.                               *)
(*                                                                         *)
(* Part 5: the probe, probeQQ (src/src/qq/probe.ts).                       *)
(*                                                                         *)
(* Part 6: further properties of the monitor and of the outbound side.     *)
(*                                                                         *)
(* Strings the code inspects character by character (targets, ids, tokens, *)
(* account keys) are sequences of one-character strings.                   *)
(***************************************************************************)
EXTENDS Integers, Sequences, FiniteSets, TLC

(***************************************************************************)
(* Bounds of the model.                                                    *)
(***************************************************************************)
\* the environment drops or fails a socket only while fewer than this many exist
MaxSockets == 2
\* frames received over the life of one monitor
MaxFrames == 2
\* calls of the returned close()
MaxCloseCalls == 2

(***************************************************************************)
(* Values.                                                                 *)
(***************************************************************************)
\* an option or config field that is undefined
Unset == "undefined"

\* the fallback of `account.config.reconnectIntervalMs ?? 5000`
DefaultReconnectIntervalMs == 5000

\* account.wsUrl as resolveQQAccount can produce it: undefined, "" (a blank
\* string trimmed), a string that is no ws: URL, a ws: URL
WsUrls == {Unset, "", "localhost:3001", "ws://localhost:3001"}

\* account.config.reconnectIntervalMs: z.number().optional(); <<>> is
\* undefined, <<n>> the number n
ReconnectIntervals == {<<>>, <<0>>}

\* what a received frame holds: text that is not JSON, an event with
\* post_type "message", a JSON object with another or no post_type.  (The
\* JSON text null is left out: onEvent(null) is called, then reading
\* null.post_type throws into the catch of line 101, the path a rejecting
\* onEvent takes.)
FrameKinds == {"notjson", "message", "notice"}

VARIABLES
    phase,              \* "idle" | "threw" | "running": monitorQQProvider not yet called, threw, returned
    account,            \* [wsUrl, reconnectIntervalMs]: options.account, read-only
    hasOnMessage,       \* options.onMessage was provided
    aborted,            \* options.abortSignal.aborted
    listenerRegistered, \* abortSignal.addEventListener("abort", ...) has run
    ws,                 \* closure variable ws: index into sockets, 0 for null
    reconnectTimer,     \* closure variable reconnectTimer: index into timers, 0 for null
    isClosing,          \* closure variable isClosing
    sockets,            \* every WebSocket constructed so far: [state, closeCalls]
    timers,             \* every setTimeout(connect, delay) so far: [delay, st]
    onErrorCalls,       \* number of invocations of options.onError
    closeInvocations,   \* number of calls of the returned close()
    listenerRuns,       \* number of runs of the abort listener
    frames              \* one "message" handler invocation per received frame, in arrival order

VARIABLES
    inbound,            \* the message event handed to onMessage: [message_type, group_id, user_id, sender_user_id, message_id]
    replyToMode,        \* cfg.channels.qq.replyToMode: Unset | "off" | "first" | "all"
    dispatch,           \* "idle" | "running" | "done" | "rejected": position of dispatchQQMessage
    chat,               \* [chatId, messageId] of the QQMessageContext
    deliveryState,      \* [delivered, skippedNonSilent] of dispatchQQMessage
    pipeline,           \* callbacks the reply pipeline has made so far, in order
    requests,           \* HTTP POSTs made to the bridge, in order: [endpoint, id, message, response]
    outbound            \* the outbound adapter call made: [to, text, replyToId, mediaUrl, settled, messageId], its arguments and what the caller got

monitorVars == <<phase, account, hasOnMessage, aborted, listenerRegistered, ws,
                 reconnectTimer, isClosing, sockets, timers, onErrorCalls,
                 closeInvocations, listenerRuns, frames>>

outboundVars == <<inbound, replyToMode, dispatch, chat, deliveryState, pipeline,
                  requests, outbound>>

VARIABLES
    qqCfg,              \* cfg.channels.qq: [enabled, httpUrl, tokenFile, accessToken, accounts]
    envToken,           \* process.env.QQ_ACCESS_TOKEN
    tokenFileContent,   \* what fs.readFileSync gives for the token file: <<>> when it throws
    bindings,           \* [ids, default]: listBoundAccountIds(cfg, "qq") and resolveDefaultAgentBoundAccountId(cfg, "qq")
    requested,          \* params.accountId of the resolveQQAccount call
    resolved,           \* the ResolvedQQAccount returned
    listed              \* None, or <<ids>> with the array listQQAccountIds returned

accountVars == <<qqCfg, envToken, tokenFileContent, bindings, requested, resolved, listed>>

VARIABLES
    parsed,             \* what parseQQInboundMessage gave for inbound: the message, or that it threw
    probe               \* the probeQQ call: [phase, url, authorized, first, result]

gatewayVars == <<parsed, probe>>

vars == <<monitorVars, outboundVars, accountVars, gatewayVars>>

\* the state of the other parts, which the monitor never touches
nonMonitorVars == <<outboundVars, accountVars, gatewayVars>>

\* what the environment and the caller own: the monitor never writes these
optionVars == <<phase, account, hasOnMessage, aborted, listenerRegistered>>

\* inbound before any event was handed over
NoEvent == [message_type |-> "none", group_id |-> <<>>, user_id |-> 0,
            sender_user_id |-> <<>>, message_id |-> 0, sender |-> <<>>,
            message |-> [kind |-> "missing", text |-> <<>>, segments |-> <<>>]]

\* parsed before parseQQInboundMessage was called
NotParsed == [outcome |-> "pending"]

\* probe before probeQQ was called
NoProbe == [phase |-> "idle"]

\* chat before buildQQMessageContext has run
NoChat == [chatId |-> <<>>, messageId |-> <<>>]

\* an optional value that is absent; a present value v is <<v>>
None == <<>>

\* resolved before resolveQQAccount has returned
NoAccount == [accountId |-> <<>>, enabled |-> FALSE, httpUrl |-> <<>>,
              accessToken |-> <<>>, tokenSource |-> "pending"]

\* a channel section without any setting
EmptyConfig == [enabled |-> None, httpUrl |-> None, tokenFile |-> None,
                accessToken |-> None, accounts |-> <<>>]

\* outbound before any outbound adapter call
NoOutbound == [to |-> <<>>, text |-> "", replyToId |-> <<>>, mediaUrl |-> "",
               settled |-> "pending", messageId |-> <<>>]

(***************************************************************************)
(* The environment's view of a socket (readyState of the ws library):      *)
(*   connecting  handshake in progress                                     *)
(*   open        frames can arrive                                         *)
(*   aborting    close() was called while connecting: the library will     *)
(*               emit "error" and then "close"                             *)
(*   closing     close() was called while open, or "error" was emitted:    *)
(*               the library will emit "close"                             *)
(*   closed      "close" was emitted, once                                 *)
(***************************************************************************)
LiveStates == {"connecting", "open"}

SocketIds == 1..Len(sockets)
TimerIds == 1..Len(timers)
FrameIds == 1..Len(frames)

LiveSockets == {s \in SocketIds : sockets[s].state \in LiveStates}
PendingTimers == {t \in TimerIds : timers[t].st = "pending"}

\* mutant: tests `wsUrl === undefined` only
WsUrlMissing_UndefinedOnly(u) == u = Unset

\* `if (!wsUrl)`: undefined and the empty string are falsy
WsUrlMissing(u) == u = Unset \/ u = ""

\* new WebSocket(address) throws a SyntaxError for an address that is no
\* ws:/wss: URL
WebSocketCtorThrows(u) == u # "ws://localhost:3001"

\* mutant: `reconnectIntervalMs || 5000`, a configured 0 falls back too
ReconnectDelay_FalsyDefault(cfg) ==
    IF cfg = <<>> \/ cfg[1] = 0 THEN DefaultReconnectIntervalMs ELSE cfg[1]

\* `account.config.reconnectIntervalMs ?? 5000`
ReconnectDelay(cfg) == IF cfg = <<>> THEN DefaultReconnectIntervalMs ELSE cfg[1]

\* mutant: connect() tests isClosing only
ConnectBlocked_IgnoresAbort == isClosing

\* `if (isClosing || abortSignal.aborted) return;` at the top of connect()
ConnectBlocked == isClosing \/ aborted

\* `if (!isClosing && !abortSignal.aborted)` in the "close" handler
ShouldReconnect == ~isClosing /\ ~aborted

\* clearTimeout(h) guarded by `if (reconnectTimer)`: a pending timer is
\* cancelled, a fired or cleared one is left alone
ClearTimeout(ts, h) ==
    IF h # 0 /\ ts[h].st = "pending" THEN [ts EXCEPT ![h].st = "cleared"] ELSE ts

\* WebSocket.close() of the ws library: aborts a handshake, starts the
\* closing handshake of an open socket, and is a no-op on a socket that is
\* already closing or closed
WsCloseState(st) ==
    CASE st = "connecting" -> "aborting"
      [] st = "open" -> "closing"
      [] OTHER -> st

\* ws.close() guarded by `if (ws)`
WsClose(socks, h) ==
    IF h = 0 THEN socks
    ELSE [socks EXCEPT ![h] = [state |-> WsCloseState(@.state),
                               closeCalls |-> @.closeCalls + 1]]

(***************************************************************************)
(* connect(), lines 75-126.                                                *)
(***************************************************************************)
Connect ==
    IF ConnectBlocked
    THEN UNCHANGED <<ws, sockets, onErrorCalls>>
    ELSE IF WebSocketCtorThrows(account.wsUrl)
         THEN \* catch, lines 122-125: onError?.(error); ws keeps its value,
              \* nothing is scheduled
              /\ onErrorCalls' = onErrorCalls + 1
              /\ UNCHANGED <<ws, sockets>>
         ELSE /\ sockets' = Append(sockets, [state |-> "connecting", closeCalls |-> 0])
              /\ ws' = Len(sockets) + 1
              /\ UNCHANGED onErrorCalls

(***************************************************************************)
(* monitorQQProvider(options), lines 63-151: throws without wsUrl, else    *)
(* runs connect() once, registers the abort listener and returns close.    *)
(***************************************************************************)
Start ==
    /\ phase = "idle"
    /\ IF WsUrlMissing(account.wsUrl)
       THEN /\ phase' = "threw"
            /\ UNCHANGED <<listenerRegistered, ws, sockets, onErrorCalls>>
       ELSE /\ phase' = "running"
            /\ Connect
            /\ listenerRegistered' = TRUE
    /\ UNCHANGED <<account, hasOnMessage, aborted, reconnectTimer, isClosing,
                   timers, closeInvocations, listenerRuns, frames, nonMonitorVars>>

\* mutant: the listener sets the flag and clears the timer but leaves the
\* socket alone
AbortListener_NoSocketClose ==
    /\ listenerRuns' = listenerRuns + 1
    /\ isClosing' = TRUE
    /\ timers' = ClearTimeout(timers, reconnectTimer)
    /\ UNCHANGED sockets

(***************************************************************************)
(* The listener of the abort event, lines 130-138.                         *)
(***************************************************************************)
AbortListener ==
    /\ listenerRuns' = listenerRuns + 1
    /\ isClosing' = TRUE
    /\ timers' = ClearTimeout(timers, reconnectTimer)
    /\ sockets' = WsClose(sockets, ws)

(***************************************************************************)
(* The abort signal fires, once; a listener registered before that runs    *)
(* synchronously, a listener registered on an aborted signal never runs.   *)
(***************************************************************************)
Abort ==
    /\ ~aborted
    /\ aborted' = TRUE
    /\ IF listenerRegistered
       THEN AbortListener
       ELSE UNCHANGED <<listenerRuns, isClosing, timers, sockets>>
    /\ UNCHANGED <<phase, account, hasOnMessage, listenerRegistered, ws,
                   reconnectTimer, onErrorCalls, closeInvocations, frames,
                   nonMonitorVars>>

\* mutant: close() does not clear the reconnect timer
CloseCall_KeepsTimer ==
    /\ phase = "running"
    /\ closeInvocations < MaxCloseCalls
    /\ closeInvocations' = closeInvocations + 1
    /\ isClosing' = TRUE
    /\ sockets' = WsClose(sockets, ws)
    /\ UNCHANGED <<nonMonitorVars, optionVars, ws, reconnectTimer, timers, onErrorCalls, listenerRuns,
                   frames>>

(***************************************************************************)
(* The returned close(), lines 141-149.                                    *)
(***************************************************************************)
CloseCall ==
    /\ phase = "running"
    /\ closeInvocations < MaxCloseCalls
    /\ closeInvocations' = closeInvocations + 1
    /\ isClosing' = TRUE
    /\ timers' = ClearTimeout(timers, reconnectTimer)
    /\ sockets' = WsClose(sockets, ws)
    /\ UNCHANGED <<nonMonitorVars, optionVars, ws, reconnectTimer, onErrorCalls, listenerRuns, frames>>

(***************************************************************************)
(* ws.on("open"), lines 87-89: logs only.                                  *)
(***************************************************************************)
SockOpen(s) ==
    /\ sockets[s].state = "connecting"
    /\ sockets' = [sockets EXCEPT ![s].state = "open"]
    /\ UNCHANGED <<nonMonitorVars, optionVars, ws, reconnectTimer, isClosing, timers, onErrorCalls,
                   closeInvocations, listenerRuns, frames>>

(***************************************************************************)
(* ws.on("error"), lines 118-121: onError?.(error).  The library emits     *)
(* "error" for a failed handshake, a protocol or network error, and for a  *)
(* handshake aborted by close(); "close" follows.                          *)
(***************************************************************************)
\* mutant: the "error" handler gives the connection up: it sets the closing flag
OnSocketError_SetsClosing ==
    /\ onErrorCalls' = onErrorCalls + 1
    /\ isClosing' = TRUE
    /\ UNCHANGED <<ws, reconnectTimer, timers>>

\* mutant: the "error" handler schedules a reconnect as the "close" handler does
OnSocketError_AlsoReconnects ==
    /\ onErrorCalls' = onErrorCalls + 1
    /\ timers' = Append(timers, [delay |-> ReconnectDelay(account.reconnectIntervalMs),
                                 st |-> "pending"])
    /\ reconnectTimer' = Len(timers) + 1
    /\ UNCHANGED <<ws, isClosing>>

OnSocketError ==
    /\ onErrorCalls' = onErrorCalls + 1
    /\ UNCHANGED <<ws, reconnectTimer, isClosing, timers>>

SockError(s) ==
    /\ \/ sockets[s].state \in LiveStates /\ Len(sockets) < MaxSockets
       \/ sockets[s].state = "aborting"
    /\ sockets' = [sockets EXCEPT ![s].state = "closing"]
    /\ OnSocketError
    /\ UNCHANGED <<nonMonitorVars, optionVars, closeInvocations, listenerRuns, frames>>

(***************************************************************************)
(* ws.on("close"), lines 106-116: schedules connect() unless cancelled.    *)
(* The library emits "close" once per socket: after an error, after        *)
(* close(), or when the peer closes or drops an open connection.           *)
(***************************************************************************)
OnSocketClose ==
    IF ShouldReconnect
    THEN /\ timers' = Append(timers, [delay |-> ReconnectDelay(account.reconnectIntervalMs),
                                      st |-> "pending"])
         /\ reconnectTimer' = Len(timers) + 1
    ELSE UNCHANGED <<timers, reconnectTimer>>

SockClose(s) ==
    /\ \/ sockets[s].state = "open" /\ Len(sockets) < MaxSockets
       \/ sockets[s].state = "closing"
    /\ sockets' = [sockets EXCEPT ![s].state = "closed"]
    /\ OnSocketClose
    /\ UNCHANGED <<nonMonitorVars, optionVars, ws, isClosing, onErrorCalls, closeInvocations,
                   listenerRuns, frames>>

(***************************************************************************)
(* A pending reconnect timer fires and runs connect().                     *)
(***************************************************************************)
TimerFire(t) ==
    /\ timers[t].st = "pending"
    /\ timers' = [timers EXCEPT ![t].st = "fired"]
    /\ Connect
    /\ UNCHANGED <<nonMonitorVars, optionVars, reconnectTimer, isClosing, closeInvocations,
                   listenerRuns, frames>>

(***************************************************************************)
(* ws.on("message", async (data) => {...}), lines 91-104.  The emitter     *)
(* calls the async handler and does not wait for the promise it returns:   *)
(* the handler runs to its first await, and its continuation runs when the *)
(* awaited callback settles.  A frame record holds the progress of one     *)
(* invocation: ev and msg are "none" (not invoked), "pending" (awaited),   *)
(* "ok" or "failed" (threw or rejected, caught at line 101).               *)
(***************************************************************************)
\* JSON.parse(...) returns rather than throws
ParsesAsJSON(kind) == kind # "notjson"

\* mutant: onMessage is called for every event, whatever its post_type
ShouldCallOnMessage_AnyPostType(kind) == hasOnMessage

\* `event.post_type === "message" && onMessage`, line 98
ShouldCallOnMessage(kind) == kind = "message" /\ hasOnMessage

\* what a callback invocation does before the handler awaits it
CallOutcomes == {"returns", "throws"}

\* mutant: the catch block closes the current socket
CatchBlock_ClosesSocket ==
    /\ sockets' = WsClose(sockets, ws)
    /\ UNCHANGED <<onErrorCalls, ws, reconnectTimer, isClosing, timers>>

\* mutant: the catch block also reports the failure through onError
CatchBlock_ForwardsToOnError ==
    /\ onErrorCalls' = onErrorCalls + 1
    /\ UNCHANGED <<ws, reconnectTimer, isClosing, sockets, timers>>

\* `catch (error) { console.error(...) }`, lines 101-103: logs, nothing else
CatchBlock ==
    UNCHANGED <<onErrorCalls, ws, reconnectTimer, isClosing, sockets, timers>>

\* `await onMessage(event)`, line 99, up to the await
InvokeOnMessage(fr, out) ==
    IF out = "throws"
    THEN [fr EXCEPT !.msgCalls = @ + 1, !.msg = "failed", !.logged = @ + 1]
    ELSE [fr EXCEPT !.msgCalls = @ + 1, !.msg = "pending"]

\* lines 98-100, run once `await onEvent(event)` has resolved
AfterOnEvent(fr, out) ==
    IF ShouldCallOnMessage(fr.kind)
    THEN InvokeOnMessage([fr EXCEPT !.ev = "ok"], out)
    ELSE [fr EXCEPT !.ev = "ok"]

\* mutant: onEvent is not awaited, onMessage is invoked right after it
HandlerStart_NoAwait(s, kind, out) ==
    LET fr == [sock |-> s, kind |-> kind, ev |-> "none", msg |-> "none",
               evCalls |-> 0, msgCalls |-> 0, logged |-> 0]
    IN  IF ~ParsesAsJSON(kind)
        THEN [fr EXCEPT !.logged = @ + 1]
        ELSE IF out = "throws"
             THEN [fr EXCEPT !.evCalls = @ + 1, !.ev = "failed", !.logged = @ + 1]
             ELSE IF ShouldCallOnMessage(kind)
                  THEN [fr EXCEPT !.evCalls = @ + 1, !.ev = "pending",
                                  !.msgCalls = @ + 1, !.msg = "pending"]
                  ELSE [fr EXCEPT !.evCalls = @ + 1, !.ev = "pending"]

\* lines 92-96: parse, then `await onEvent(event)` up to the await
HandlerStart(s, kind, out) ==
    LET fr == [sock |-> s, kind |-> kind, ev |-> "none", msg |-> "none",
               evCalls |-> 0, msgCalls |-> 0, logged |-> 0]
    IN  IF ~ParsesAsJSON(kind)
        THEN [fr EXCEPT !.logged = @ + 1]
        ELSE IF out = "throws"
             THEN [fr EXCEPT !.evCalls = @ + 1, !.ev = "failed", !.logged = @ + 1]
             ELSE [fr EXCEPT !.evCalls = @ + 1, !.ev = "pending"]

\* the handler invocation of this frame has run to its end
HandlerDone(fr) == fr.ev # "pending" /\ fr.msg # "pending"

\* the rest of a handler step: the catch block if the step logged an error,
\* nothing otherwise
HandlerEffect(before, after) ==
    /\ IF after.logged > before
       THEN CatchBlock
       ELSE UNCHANGED <<onErrorCalls, ws, reconnectTimer, isClosing, sockets, timers>>
    /\ UNCHANGED <<nonMonitorVars, optionVars, closeInvocations, listenerRuns>>

\* a frame arrives on an open socket and the handler starts
FrameArrive(s, kind, out) ==
    /\ sockets[s].state = "open"
    /\ Len(frames) < MaxFrames
    /\ frames' = Append(frames, HandlerStart(s, kind, out))
    /\ HandlerEffect(0, frames'[Len(frames')])

\* the promise of onEvent settles: resolved (ok) or rejected
EventSettles(f, ok, out) ==
    /\ frames[f].ev = "pending"
    /\ frames' = [frames EXCEPT ![f] =
                    IF ok THEN AfterOnEvent(@, out)
                    ELSE [@ EXCEPT !.ev = "failed", !.logged = @ + 1]]
    /\ HandlerEffect(frames[f].logged, frames'[f])

\* the promise of onMessage settles
MessageSettles(f, ok) ==
    /\ frames[f].msg = "pending"
    /\ frames' = [frames EXCEPT ![f] =
                    IF ok THEN [@ EXCEPT !.msg = "ok"]
                    ELSE [@ EXCEPT !.msg = "failed", !.logged = @ + 1]]
    /\ HandlerEffect(frames[f].logged, frames'[f])

\* no message is being handled and no outbound call was made
OutboundIdle ==
    /\ inbound = NoEvent
    /\ replyToMode = Unset
    /\ dispatch = "idle"
    /\ chat = NoChat
    /\ deliveryState = [delivered |-> FALSE, skippedNonSilent |-> 0]
    /\ pipeline = <<>>
    /\ requests = <<>>
    /\ outbound = NoOutbound

\* no event was parsed and no probe was made
GatewayIdle == parsed = NotParsed /\ probe = NoProbe

\* no configuration is loaded and no resolver call was made
AccountsIdle ==
    /\ qqCfg = EmptyConfig
    /\ envToken = None
    /\ tokenFileContent = None
    /\ bindings = [ids |-> {}, default |-> None]
    /\ requested = None
    /\ resolved = NoAccount
    /\ listed = None

Init ==
    /\ OutboundIdle
    /\ AccountsIdle
    /\ GatewayIdle
    /\ phase = "idle"
    /\ account \in [wsUrl : WsUrls, reconnectIntervalMs : ReconnectIntervals]
    /\ hasOnMessage \in BOOLEAN
    /\ aborted = FALSE
    /\ listenerRegistered = FALSE
    /\ ws = 0
    /\ reconnectTimer = 0
    /\ isClosing = FALSE
    /\ sockets = <<>>
    /\ timers = <<>>
    /\ onErrorCalls = 0
    /\ closeInvocations = 0
    /\ listenerRuns = 0
    /\ frames = <<>>

Next ==
    \/ Start
    \/ Abort
    \/ CloseCall
    \/ \E s \in SocketIds : SockOpen(s)
    \/ \E s \in SocketIds : SockError(s)
    \/ \E s \in SocketIds : SockClose(s)
    \/ \E t \in TimerIds : TimerFire(t)
    \/ \E s \in SocketIds, kind \in FrameKinds, out \in CallOutcomes : FrameArrive(s, kind, out)
    \/ \E f \in FrameIds, ok \in BOOLEAN, out \in CallOutcomes : EventSettles(f, ok, out)
    \/ \E f \in FrameIds, ok \in BOOLEAN : MessageSettles(f, ok)

Spec == Init /\ [][Next]_vars

\* The event loop runs a due timer, and the ws library emits "close" after
\* an error or a close() and "error" after an aborted handshake.
FairSpec ==
    /\ Spec
    /\ WF_vars(\E t \in TimerIds : TimerFire(t))
    /\ WF_vars(\E s \in SocketIds : sockets[s].state = "closing" /\ SockClose(s))
    /\ WF_vars(\E s \in SocketIds : sockets[s].state = "aborting" /\ SockError(s))

(***************************************************************************)
(* Properties of the event monitor.                                        *)
(***************************************************************************)
\* the monitor is cancelled: close() was called or the abort signal has fired
Cancelled == isClosing \/ aborted

\* the delay the configuration asks for
ConfiguredDelay ==
    IF account.reconnectIntervalMs = <<>> THEN 5000 ELSE account.reconnectIntervalMs[1]

\* the "close" event of socket s is delivered in this step
CloseDelivered(s) == sockets[s].state # "closed" /\ sockets'[s].state = "closed"

\* C1: once the monitor is cancelled no WebSocket is created and no reconnect
\* is scheduled any more, and no reconnect timer is left pending; this covers
\* a timer that fires late, the close event of the old socket, and a monitor
\* started on an aborted signal.
C1_NoSocketAfterCancel ==
    [][ /\ Cancelled => Len(sockets') = Len(sockets) /\ Len(timers') = Len(timers)
        /\ Cancelled' => PendingTimers' = {} ]_vars

\* a pending reconnect timer was cancelled, the old socket has closed since,
\* and nothing was created
C1_Witness ==
    /\ Cancelled
    /\ \E t \in TimerIds : timers[t].st = "cleared"
    /\ \A s \in SocketIds : sockets[s].state = "closed"

C3_OneSocket ==
    /\ Cardinality(LiveSockets) <= 1
    /\ \A s \in SocketIds : s < Len(sockets) => sockets[s].state = "closed"

\* a second socket is open after the first one closed
C3_Witness ==
    /\ Len(sockets) = 2
    /\ sockets[1].state = "closed"
    /\ sockets[2].state = "open"

\* C10: without wsUrl the monitor throws before it creates a socket, schedules
\* a timer, registers the abort listener or reports an error, and it never
\* runs.
C10_ThrowsBeforeAnything ==
    /\ (account.wsUrl = Unset \/ account.wsUrl = "") =>
          /\ phase # "running"
          /\ sockets = <<>> /\ timers = <<>> /\ ws = 0 /\ reconnectTimer = 0
          /\ ~listenerRegistered /\ listenerRuns = 0
          /\ onErrorCalls = 0
    /\ phase = "threw" => (account.wsUrl = Unset \/ account.wsUrl = "")

\* the monitor threw on an empty wsUrl, and an abort after it found nothing to do
C10_Witness == phase = "threw" /\ account.wsUrl = "" /\ aborted

\* close is invoked on some socket in this step
CloseInvoked == \E s \in SocketIds : sockets'[s].closeCalls > sockets[s].closeCalls

\* the monitor is running, not cancelled, and has no connecting or open socket
ConnectionLost == phase = "running" /\ ~Cancelled /\ LiveSockets = {}

\* C4: while the monitor is not cancelled, every lost or failed connection is
\* followed by a new connection attempt (or by the cancellation).
C4_AlwaysRetries == ConnectionLost ~> (Cancelled \/ LiveSockets # {})

\* C5: close() and the abort listener have the same effect and are
\* idempotent: the first cancellation sets isClosing, clears the pending
\* timer and closes the current socket, whichever trigger it is; a trigger
\* on a cancelled monitor changes neither the timers nor the state of a
\* socket; a cancelled monitor has no pending timer and no connecting or
\* open socket, and never schedules a reconnect or creates a socket.
C5_CancelIdempotent ==
    [][ /\ (~isClosing /\ isClosing') =>
              /\ timers' = ClearTimeout(timers, reconnectTimer)
              /\ sockets' = WsClose(sockets, ws)
              /\ ws' = ws /\ reconnectTimer' = reconnectTimer
        /\ isClosing =>
              /\ isClosing'
              /\ timers' = timers
              /\ Len(sockets') = Len(sockets)
              /\ CloseInvoked =>
                    \A s \in SocketIds : sockets'[s].state = sockets[s].state
        /\ isClosing' => PendingTimers' = {} /\ LiveSockets' = {} ]_vars

\* close() was called twice and the abort listener ran, on a socket
C5_Witness ==
    /\ closeInvocations = 2
    /\ listenerRuns = 1
    /\ ws # 0

\* C6 as stated: the close operation of the socket is invoked exactly once
\* however often cancellation is triggered.
C6_CloseInvokedOnce ==
    \A s \in SocketIds :
        /\ sockets[s].closeCalls <= 1
        /\ (isClosing /\ s = ws) => sockets[s].closeCalls = 1

\* C6 amended: the close operation is invoked once per cancellation trigger,
\* always on the socket that is current, and on no other socket; an
\* invocation after the first leaves the state of the socket as it is.
C6_CloseOncePerTrigger ==
    [][ /\ \A s \in 1..Len(sockets') :
              sockets'[s].closeCalls =
                  IF s = ws' THEN closeInvocations' + listenerRuns' ELSE 0
        /\ \A s \in SocketIds :
              (sockets[s].closeCalls >= 1 /\ sockets'[s].closeCalls > sockets[s].closeCalls)
                  => sockets'[s].state = sockets[s].state ]_vars

\* cancellation was triggered twice on a socket that was open
C6_Witness ==
    /\ ws # 0
    /\ sockets[ws].closeCalls = 2
    /\ sockets[ws].state = "closing"

\* frames i and j arrived on the same connection, i before j
Earlier(i, j) == i < j /\ frames[i].sock = frames[j].sock

\* C7 as stated: no callback of a later frame starts before the handling of
\* every earlier frame of the connection has finished.
C7_NoOverlap ==
    \A i, j \in FrameIds :
        (Earlier(i, j) /\ frames[j].evCalls > 0) => HandlerDone(frames[i])

\* C7 amended: onEvent is invoked for the frames of a connection in arrival
\* order, and onMessage of a frame is invoked only after onEvent of that frame
\* has completed; the handling of different frames may overlap.
C7_StartOrder ==
    /\ \A i, j \in FrameIds :
          (Earlier(i, j) /\ frames[j].evCalls > 0) =>
              (frames[i].evCalls > 0 \/ ~ParsesAsJSON(frames[i].kind))
    /\ \A f \in FrameIds : frames[f].msgCalls > 0 => frames[f].ev = "ok"

\* onEvent of the second frame was invoked while onMessage of the first frame
\* of the same connection is still pending
C7_Witness ==
    /\ Len(frames) >= 2
    /\ Earlier(1, 2)
    /\ frames[1].msg = "pending"
    /\ frames[2].evCalls = 1

\* C8 as stated: for a frame that parses, onEvent is invoked once, and
\* onMessage once if and only if the event is a message event and onMessage
\* was provided.
C8_EventThenMessage ==
    \A f \in FrameIds :
        ParsesAsJSON(frames[f].kind) =>
            /\ frames[f].evCalls = 1
            /\ frames[f].msgCalls <= 1
            /\ HandlerDone(frames[f]) =>
                  (frames[f].msgCalls = 1 <=> (frames[f].kind = "message" /\ hasOnMessage))

\* C8 amended: ... onMessage is invoked once if and only if the event is a
\* message event, onMessage was provided and the onEvent call completed
\* without throwing or rejecting; it is invoked after onEvent has completed.
C8_MessageIfEventCompleted ==
    \A f \in FrameIds :
        ParsesAsJSON(frames[f].kind) =>
            /\ frames[f].evCalls = 1
            /\ frames[f].msgCalls <= 1
            /\ frames[f].msgCalls = 1 => frames[f].ev = "ok"
            /\ HandlerDone(frames[f]) =>
                  (frames[f].msgCalls = 1 <=>
                      (frames[f].kind = "message" /\ hasOnMessage /\ frames[f].ev = "ok"))

\* one message event went through onEvent and onMessage, another one lost its
\* onMessage call to a failing onEvent
C8_Witness ==
    /\ hasOnMessage
    /\ \E f \in FrameIds :
          /\ frames[f].kind = "message" /\ HandlerDone(frames[f])
          /\ frames[f].msgCalls = 1
    /\ \E f \in FrameIds :
          /\ frames[f].kind = "message" /\ frames[f].ev = "failed"
          /\ frames[f].msgCalls = 0

\* a frame that is not JSON arrives in this step
BadFrameArrives ==
    Len(frames') = Len(frames) + 1 /\ ~ParsesAsJSON(frames'[Len(frames')].kind)

\* C9: a frame that is not JSON is logged and dropped: no callback is invoked
\* for it, then or later, the socket it came on stays open, and nothing is
\* closed or scheduled.
C9_BadFrameDropped ==
    [][ /\ BadFrameArrives =>
              /\ onErrorCalls' = onErrorCalls
              /\ sockets' = sockets
              /\ sockets'[frames'[Len(frames')].sock].state = "open"
              /\ timers' = timers
              /\ isClosing' = isClosing /\ ws' = ws /\ reconnectTimer' = reconnectTimer
        /\ \A f \in 1..Len(frames') :
              ~ParsesAsJSON(frames'[f].kind) =>
                  /\ frames'[f].evCalls = 0 /\ frames'[f].msgCalls = 0
                  /\ frames'[f].logged = 1
                  /\ HandlerDone(frames'[f]) ]_vars

\* after a dropped frame a message event arrived on the same connection and
\* reached onEvent and onMessage
C9_Witness ==
    /\ Len(frames) = 2
    /\ frames[1].kind = "notjson"
    /\ frames[2].kind = "message"
    /\ frames[2].sock = frames[1].sock
    /\ frames[2].msgCalls = 1
    /\ onErrorCalls = 0

(***************************************************************************)
(* Part 2.  Strings as sequences of characters.                            *)
(***************************************************************************)
Digits == <<"0", "1", "2", "3", "4", "5", "6", "7", "8", "9">>

\* String(n) for a non-negative integer n: its decimal digits
RECURSIVE ToStr(_)
ToStr(n) == IF n < 10 THEN <<Digits[n + 1]>>
            ELSE ToStr(n \div 10) \o <<Digits[(n % 10) + 1]>>

IsDigit(c) == \E i \in 1..10 : Digits[i] = c

\* s.startsWith(p)
StartsWith(s, p) == Len(s) >= Len(p) /\ SubSeq(s, 1, Len(p)) = p

\* s.replace(/^p/, ""): a leading p is removed, once
StripPrefix(s, p) == IF StartsWith(s, p) THEN SubSeq(s, Len(p) + 1, Len(s)) ELSE s

GroupPrefix == <<"g", "r", "o", "u", "p", ":">>
UserPrefix == <<"u", "s", "e", "r", ":">>

\* mutant: /^\d+$/, no sign allowed
IsSignedInteger_DigitsOnly(s) ==
    /\ Len(s) >= 1
    /\ \A i \in 1..Len(s) : IsDigit(s[i])

\* /^-?\d+$/.test(s): an optional minus sign, then one or more digits
IsSignedInteger(s) ==
    LET body == IF Len(s) >= 1 /\ s[1] = "-" THEN Tail(s) ELSE s
    IN  /\ Len(body) >= 1
        /\ \A i \in 1..Len(body) : IsDigit(body[i])

(***************************************************************************)
(* send.ts.  The bridge answers one POST in one of these ways:             *)
(*   network_error  fetch rejects                                          *)
(*   http_error     a status outside 2xx                                   *)
(*   ok_no_id       2xx, a JSON object without data.message_id             *)
(*   ok             2xx, data.message_id = BridgeMessageId                 *)
(***************************************************************************)
Responses == {"network_error", "http_error", "ok_no_id", "ok"}

\* the message id the bridge assigns to a message it accepted
BridgeMessageId == 901

\* makeQQApiRequest throws: fetch rejected, or `!response.ok`
RequestThrows(resp) == resp \in {"network_error", "http_error"}

\* mutant: every answer of the bridge is taken to carry a message id
ResultMessageId_AlwaysId(resp) == ToStr(BridgeMessageId)

\* String(response.data?.message_id ?? "")
ResultMessageId(resp) == IF resp = "ok" THEN ToStr(BridgeMessageId) ELSE <<>>

\* what an async call gives its caller
Thrown == [settled |-> "throws", messageId |-> <<>>]
Returned(id) == [settled |-> "returns", messageId |-> id]

\* the QQSendResult of a sender, or the Error it throws
SendResult(resp) == IF RequestThrows(resp) THEN Thrown ELSE Returned(ResultMessageId(resp))

\* mutant: the text segment is pushed first
MessageSegments_TextFirst(text, replyToId, mediaUrl) ==
    (IF text # "" THEN <<[type |-> "text", data |-> [text |-> text]]>> ELSE <<>>)
    \o (IF replyToId # <<>> THEN <<[type |-> "reply", data |-> [id |-> replyToId]]>> ELSE <<>>)
    \o (IF mediaUrl # "" THEN <<[type |-> "image", data |-> [file |-> mediaUrl]]>> ELSE <<>>)

\* messageSegments of sendPrivateMessageQQ / sendGroupMessageQQ: options are
\* <<>> when absent; a reply segment, an image segment and a text segment,
\* each only for a truthy value
MessageSegments(text, replyToId, mediaUrl) ==
    (IF replyToId # <<>> THEN <<[type |-> "reply", data |-> [id |-> replyToId]]>> ELSE <<>>)
    \o (IF mediaUrl # "" THEN <<[type |-> "image", data |-> [file |-> mediaUrl]]>> ELSE <<>>)
    \o (IF text # "" THEN <<[type |-> "text", data |-> [text |-> text]]>> ELSE <<>>)

\* sendPrivateMessageQQ: POST send_private_msg {user_id, message}
SendPrivateMessageQQ(userId, text, replyToId, mediaUrl, resp) ==
    [endpoint |-> "send_private_msg", id |-> userId,
     message |-> MessageSegments(text, replyToId, mediaUrl), response |-> resp]

\* sendGroupMessageQQ: POST send_group_msg {group_id, message}
SendGroupMessageQQ(groupId, text, replyToId, mediaUrl, resp) ==
    [endpoint |-> "send_group_msg", id |-> groupId,
     message |-> MessageSegments(text, replyToId, mediaUrl), response |-> resp]

\* `to.startsWith("group:") || /^-?\d+$/.test(to)`
IsGroupTarget(to) == StartsWith(to, GroupPrefix) \/ IsSignedInteger(to)

\* sendMessageQQ(to, text, account, options): the request it makes
SendMessageQQ(to, text, replyToId, mediaUrl, resp) ==
    IF IsGroupTarget(to)
    THEN SendGroupMessageQQ(StripPrefix(to, GroupPrefix), text, replyToId, mediaUrl, resp)
    ELSE SendPrivateMessageQQ(StripPrefix(to, UserPrefix), text, replyToId, mediaUrl, resp)

(***************************************************************************)
(* The outbound and pairing adapters of the plugin, each called with a     *)
(* target the caller chose.                                                *)
(***************************************************************************)
\* longest target body the callers try
MaxTargetLen == 2

TargetAlphabet == {"7", "a", "-"}

TargetBodies == UNION {[1..n -> TargetAlphabet] : n \in 0..MaxTargetLen}

TargetPrefixes == {<<>>, GroupPrefix, UserPrefix, GroupPrefix \o UserPrefix}

\* targets: bare numbers, signed numbers, names, group:..., user:...
Targets == {p \o b : p \in TargetPrefixes, b \in TargetBodies}

Texts == {"", "hi"}
ReplyToIds == {<<>>, <<"5", "5">>}
MediaUrls == {"", "http://img"}

PAIRING_APPROVED_MESSAGE == "approved"

\* one call of sendMessageQQ made for an adapter; the adapter awaits it and
\* passes on its result or its exception
OutboundCall(to, text, replyToId, mediaUrl, resp) ==
    /\ dispatch = "idle"
    /\ requests = <<>>
    /\ requests' = <<SendMessageQQ(to, text, replyToId, mediaUrl, resp)>>
    /\ outbound' = [to |-> to, text |-> text, replyToId |-> replyToId,
                     mediaUrl |-> mediaUrl, settled |-> SendResult(resp).settled,
                     messageId |-> SendResult(resp).messageId]
    /\ UNCHANGED <<monitorVars, accountVars, gatewayVars, inbound, replyToMode, dispatch, chat, deliveryState, pipeline>>

\* outbound.sendText
SendText(to, text, replyToId, resp) == OutboundCall(to, text, replyToId, "", resp)

\* outbound.sendMedia
SendMedia(to, text, mediaUrl, replyToId, resp) ==
    /\ mediaUrl # ""
    /\ OutboundCall(to, text, replyToId, mediaUrl, resp)

\* pairing.notifyApproval({cfg, id})
NotifyApproval(id, resp) == OutboundCall(id, PAIRING_APPROVED_MESSAGE, <<>>, "", resp)

\* the monitor is not started
MonitorIdle ==
    /\ phase = "idle"
    /\ account = [wsUrl |-> "ws://localhost:3001", reconnectIntervalMs |-> <<>>]
    /\ hasOnMessage = TRUE
    /\ aborted = FALSE
    /\ listenerRegistered = FALSE
    /\ ws = 0
    /\ reconnectTimer = 0
    /\ isClosing = FALSE
    /\ sockets = <<>>
    /\ timers = <<>>
    /\ onErrorCalls = 0
    /\ closeInvocations = 0
    /\ listenerRuns = 0
    /\ frames = <<>>

SendInit == MonitorIdle /\ OutboundIdle /\ AccountsIdle /\ GatewayIdle

SendNext ==
    \/ \E to \in Targets, text \in Texts, r \in ReplyToIds, resp \in Responses :
           SendText(to, text, r, resp)
    \/ \E to \in Targets, text \in Texts, m \in MediaUrls, r \in ReplyToIds, resp \in Responses :
           SendMedia(to, text, m, r, resp)
    \/ \E id \in Targets, resp \in Responses : NotifyApproval(id, resp)

\* one outbound call with a target of the caller's choice
SendSpec == SendInit /\ [][SendNext]_vars

(***************************************************************************)
(* message-context.ts: from the message event to the chat id.              *)
(***************************************************************************)
\* an optional number (<<>> or <<n>>) that is truthy: present and not 0
Truthy(opt) == opt # <<>> /\ opt[1] # 0

\* the sender is never appended
BuildQQGroupPeerId_GroupOnly(groupId, userId) == ToStr(groupId)

\* buildQQGroupPeerId(groupId, userId)
BuildQQGroupPeerId(groupId, userId) ==
    IF Truthy(userId) THEN ToStr(groupId) \o <<":">> \o ToStr(userId[1]) ELSE ToStr(groupId)

\* resolveQQPeerId(event)
ResolveQQPeerId(ev) ==
    IF ev.message_type = "group" /\ Truthy(ev.group_id)
    THEN [peerId |-> BuildQQGroupPeerId(ev.group_id[1], ev.sender_user_id), isGroup |-> TRUE]
    ELSE [peerId |-> ToStr(ev.user_id), isGroup |-> FALSE]

\* a JSON value of a segment's data: absent, a string (s) or a number (n)
Undef == [t |-> "undefined", s |-> <<>>, n |-> 0]
Str(chars) == [t |-> "string", s |-> chars, n |-> 0]
Num(number) == [t |-> "number", s |-> <<>>, n |-> number]

\* seg.type === "text" && typeof seg.data === "object" && seg.data !== null
IsTextSegment(seg) == seg.type = "text" /\ seg.data # <<>>

\* String(typeof seg.data.text === "string" ? seg.data.text : "")
SegmentText(seg) == IF seg.data[1].text.t = "string" THEN seg.data[1].text.s ELSE <<>>

\* .join(" "): the texts with a blank between them
RECURSIVE JoinTexts_WithSeparator(_)
JoinTexts_WithSeparator(segs) ==
    IF segs = <<>> THEN <<>>
    ELSE IF Len(segs) = 1 THEN SegmentText(Head(segs))
    ELSE SegmentText(Head(segs)) \o <<" ">> \o JoinTexts_WithSeparator(Tail(segs))

\* .map(...).join(""): the texts one after the other
RECURSIVE JoinTexts(_)
JoinTexts(segs) ==
    IF segs = <<>> THEN <<>>
    ELSE SegmentText(Head(segs)) \o JoinTexts(Tail(segs))

\* extractTextFromMessage(message), for a message that is a string or an array
ExtractTextFromMessage(message) ==
    IF message.kind = "string" THEN message.text
    ELSE JoinTexts(SelectSeq(message.segments, IsTextSegment))

\* message.find((seg) => seg.type === "reply"): <<>> when there is none
RECURSIVE FindReplySegment(_)
FindReplySegment(segs) ==
    IF segs = <<>> THEN <<>>
    ELSE IF Head(segs).type = "reply" THEN <<Head(segs)>>
    ELSE FindReplySegment(Tail(segs))

\* the id of a reply segment as extractReplyToId returns it: <<>> is undefined
ReplySegmentId(seg) ==
    IF seg.data = <<>> THEN <<>>
    ELSE IF seg.data[1].id.t = "string" THEN <<seg.data[1].id.s>>
    ELSE IF seg.data[1].id.t = "number" THEN <<ToStr(seg.data[1].id.n)>>
    ELSE <<>>

\* the last reply segment decides
ExtractReplyToId_LastReply(segs) ==
    IF SelectSeq(segs, LAMBDA seg : seg.type = "reply") = <<>> THEN <<>>
    ELSE ReplySegmentId(SelectSeq(segs, LAMBDA seg : seg.type = "reply")
                            [Len(SelectSeq(segs, LAMBDA seg : seg.type = "reply"))])

\* extractReplyToId(message)
ExtractReplyToId(segs) ==
    IF FindReplySegment(segs) = <<>> THEN <<>>
    ELSE ReplySegmentId(FindReplySegment(segs)[1])

\* an optional string (<<>> or <<chars>>) that is truthy: present and not ""
TruthyText(opt) == opt # <<>> /\ opt[1] # <<>>

\* event.sender.nickname || event.sender.card || String(event.user_id)
SenderName(ev) ==
    IF TruthyText(ev.sender[1].nickname) THEN ev.sender[1].nickname[1]
    ELSE IF TruthyText(ev.sender[1].card) THEN ev.sender[1].card[1]
    ELSE ToStr(ev.user_id)

\* parseQQInboundMessage raises a TypeError: event.message.filter of a
\* message that is absent, event.sender.nickname of a sender that is absent
ParseThrows(ev) == ev.message.kind = "missing" \/ ev.sender = <<>>

\* parseQQInboundMessage(event, accountId), for an event it does not throw on
ParseQQInboundMessage(ev) ==
    [chatType |-> IF ResolveQQPeerId(ev).isGroup THEN "group" ELSE "direct",
     peerId |-> ResolveQQPeerId(ev).peerId,
     senderId |-> ToStr(ev.user_id),
     senderName |-> SenderName(ev),
     text |-> ExtractTextFromMessage(ev.message),
     messageId |-> ToStr(ev.message_id),
     replyToId |-> IF ev.message.kind = "array"
                   THEN ExtractReplyToId(ev.message.segments) ELSE <<>>,
     groupId |-> IF Truthy(ev.group_id) THEN <<ToStr(ev.group_id[1])>> ELSE <<>>]

\* buildQQMessageContext({message, ...}): chatId and messageId of the context
BuildQQMessageContext(message) ==
    [chatId |-> IF message.chatType = "group"
                THEN GroupPrefix \o message.peerId
                ELSE UserPrefix \o message.senderId,
     messageId |-> message.messageId]

(***************************************************************************)
(* message-dispatch.ts.  The shared reply pipeline                         *)
(* (dispatchReplyWithBufferedBlockDispatcher) is the environment: it calls *)
(* deliver, onSkip and onError any number of times, then resolves or       *)
(* rejects.                                                                *)
(***************************************************************************)
\* callbacks of the pipeline in one dispatch
MaxCallbacks == 3

EMPTY_RESPONSE_FALLBACK == "No response generated. Please try again."

\* sender.user_id of a message event: absent, or the sender's QQ number
SenderUserIds == {<<>>, <<7>>}

\* message events of OneBot 11: a private message from user 7, a message of
\* user 7 in group 100; <<>> is an absent field
InboundEvents ==
    [message_type : {"private"}, group_id : {<<>>}, user_id : {7},
     sender_user_id : SenderUserIds, message_id : {55},
     sender : {<<[nickname |-> <<<<"A", "l">>>>, card |-> <<>>]>>},
     message : {[kind |-> "string", text |-> <<"h", "i">>, segments |-> <<>>]}]
    \cup [message_type : {"group"}, group_id : {<<100>>}, user_id : {7},
          sender_user_id : SenderUserIds, message_id : {55},
          sender : {<<[nickname |-> <<<<"A", "l">>>>, card |-> <<>>]>>},
          message : {[kind |-> "string", text |-> <<"h", "i">>, segments |-> <<>>]}]

ReplyToModes == {Unset, "off", "first", "all"}

\* info.kind of a reply payload
ReplyKinds == {"block", "final"}
\* info.reason of a skipped payload
SkipReasons == {"silent", "empty"}

\* mutant: no try/catch around sendMessageQQ
DeliverQQReply_NoCatch(resp) == SendResult(resp)

\* deliverQQReply: the result of sendMessageQQ, or null (a result without
\* message id) when it threw
DeliverQQReply(resp) == IF RequestThrows(resp) THEN Returned(<<>>) ELSE SendResult(resp)

\* `if (info.kind === "final" && payload.text)`
DeliverSends(kind, text) == kind = "final" /\ text # ""

\* mutant: the fallback is sent whenever nothing was delivered
FallbackDue_IgnoresSkips(ds) == ~ds.delivered

\* `if (!deliveryState.delivered && deliveryState.skippedNonSilent > 0)`
FallbackDue(ds) == ~ds.delivered /\ ds.skippedNonSilent > 0

\* the plugin's onMessage: parseQQInboundMessage, buildQQMessageContext, then
\* dispatchQQMessage up to the call of the pipeline
OnMessage(ev, mode) ==
    /\ dispatch = "idle"
    /\ requests = <<>>
    /\ inbound' = ev
    /\ replyToMode' = mode
    /\ chat' = BuildQQMessageContext(ParseQQInboundMessage(ev))
    /\ deliveryState' = [delivered |-> FALSE, skippedNonSilent |-> 0]
    /\ dispatch' = "running"
    /\ UNCHANGED <<monitorVars, accountVars, gatewayVars, pipeline, requests, outbound>>

\* a callback is logged as [cb, kind, text, reason, settled]
Callback(cb, kind, text, reason, settled) ==
    [cb |-> cb, kind |-> kind, text |-> text, reason |-> reason, settled |-> settled]

\* the deliver callback, lines 34-46
Deliver(kind, text, resp) ==
    /\ dispatch = "running"
    /\ Len(pipeline) < MaxCallbacks
    /\ IF DeliverSends(kind, text)
       THEN /\ requests' = Append(requests,
                    SendMessageQQ(chat.chatId, text, chat.messageId, "", resp))
            /\ deliveryState' =
                    IF DeliverQQReply(resp).settled = "returns"
                       /\ DeliverQQReply(resp).messageId # <<>>
                    THEN [deliveryState EXCEPT !.delivered = TRUE]
                    ELSE deliveryState
            /\ pipeline' = Append(pipeline,
                    Callback("deliver", kind, text, "", DeliverQQReply(resp).settled))
       ELSE /\ resp = "ok"
            /\ pipeline' = Append(pipeline, Callback("deliver", kind, text, "", "returns"))
            /\ UNCHANGED <<requests, deliveryState>>
    /\ UNCHANGED <<monitorVars, accountVars, gatewayVars, inbound, replyToMode, dispatch, chat, outbound>>

\* the onSkip callback, lines 47-49
OnSkip(reason) ==
    /\ dispatch = "running"
    /\ Len(pipeline) < MaxCallbacks
    /\ deliveryState' =
            IF reason # "silent"
            THEN [deliveryState EXCEPT !.skippedNonSilent = @ + 1]
            ELSE deliveryState
    /\ pipeline' = Append(pipeline, Callback("skip", "", "", reason, "returns"))
    /\ UNCHANGED <<monitorVars, accountVars, gatewayVars, inbound, replyToMode, dispatch, chat, requests, outbound>>

\* the onError callback, lines 50-52: runtime.error?.(...), a log line
OnError(kind) ==
    /\ dispatch = "running"
    /\ Len(pipeline) < MaxCallbacks
    /\ pipeline' = Append(pipeline, Callback("error", kind, "", "", "returns"))
    /\ UNCHANGED <<monitorVars, accountVars, gatewayVars, inbound, replyToMode, dispatch, chat, deliveryState,
                   requests, outbound>>

\* the pipeline resolves: lines 64-70, the fallback, then dispatchQQMessage
\* settles as deliverQQReply did
PipelineResolves(resp) ==
    /\ dispatch = "running"
    /\ IF FallbackDue(deliveryState)
       THEN /\ requests' = Append(requests,
                    SendMessageQQ(chat.chatId, EMPTY_RESPONSE_FALLBACK, <<>>, "", resp))
            /\ dispatch' = IF DeliverQQReply(resp).settled = "returns" THEN "done" ELSE "rejected"
       ELSE /\ resp = "ok"
            /\ dispatch' = "done"
            /\ UNCHANGED requests
    /\ UNCHANGED <<monitorVars, accountVars, gatewayVars, inbound, replyToMode, chat, deliveryState, pipeline,
                   outbound>>

\* the pipeline rejects: the await of line 30 throws, dispatchQQMessage rejects
PipelineRejects ==
    /\ dispatch = "running"
    /\ dispatch' = "rejected"
    /\ UNCHANGED <<monitorVars, accountVars, gatewayVars, inbound, replyToMode, chat, deliveryState, pipeline,
                   requests, outbound>>

DispatchInit == MonitorIdle /\ OutboundIdle /\ AccountsIdle /\ GatewayIdle

DispatchNext ==
    \/ \E ev \in InboundEvents, mode \in ReplyToModes : OnMessage(ev, mode)
    \/ \E kind \in ReplyKinds, text \in Texts, resp \in Responses : Deliver(kind, text, resp)
    \/ \E reason \in SkipReasons : OnSkip(reason)
    \/ \E kind \in ReplyKinds : OnError(kind)
    \/ \E resp \in Responses : PipelineResolves(resp)
    \/ PipelineRejects

\* one inbound message handled from onMessage to the end of dispatchQQMessage
DispatchSpec == DispatchInit /\ [][DispatchNext]_vars

(***************************************************************************)
(* Properties of the dispatcher and the sender.                            *)
(***************************************************************************)
RequestIds == 1..Len(requests)
CallbackIds == 1..Len(pipeline)

\* the request carries a text segment with this text
HasText(r, text) ==
    \E k \in 1..Len(r.message) : r.message[k].type = "text" /\ r.message[k].data.text = text

\* the request carries a reply-reference segment
HasReplySegment(r) == \E k \in 1..Len(r.message) : r.message[k].type = "reply"

\* the requests that carry the fallback text, and the replies
FallbackRequests == {i \in RequestIds : HasText(requests[i], EMPTY_RESPONSE_FALLBACK)}
ReplyRequests == RequestIds \ FallbackRequests

\* the bridge accepted a reply: it answered with the id of the sent message
ReplyDelivered == \E i \in ReplyRequests : requests[i].response = "ok"

\* the pipeline reported a skip with a reason other than "silent"
NonSilentSkipped == \E k \in CallbackIds : pipeline[k].cb = "skip" /\ pipeline[k].reason # "silent"

\* the deliver callbacks that were given a final reply with text
FinalTextReplies ==
    {k \in CallbackIds : /\ pipeline[k].cb = "deliver"
                         /\ pipeline[k].kind = "final"
                         /\ pipeline[k].text # ""}

\* C11: once the pipeline of a dispatch has completed, the fallback text has
\* been sent exactly once if no reply was delivered and a non-silent skip
\* occurred, and not at all otherwise; it is the last request of the
\* dispatch; with silent skips only and no reply to send, no request is made.
C11_FallbackExactlyWhenDue ==
    dispatch = "done" =>
        /\ Cardinality(FallbackRequests) =
               IF ~ReplyDelivered /\ NonSilentSkipped THEN 1 ELSE 0
        /\ \A i \in FallbackRequests : i = Len(requests)
        /\ (~NonSilentSkipped /\ FinalTextReplies = {}) => requests = <<>>

C11_Witness ==
    /\ dispatch = "done"
    /\ FallbackRequests # {}
    /\ \E i \in ReplyRequests : requests[i].response = "http_error"
    /\ \E k \in CallbackIds : pipeline[k].cb = "skip" /\ pipeline[k].reason = "silent"

\* C12: every request of a dispatch goes back to the chat of the inbound
\* message: send_group_msg with group_id = G for a message from group G,
\* send_private_msg with user_id = U for a private message from user U.
C12_ReplyToSameChat ==
    \A i \in RequestIds :
        dispatch # "idle" =>
            IF inbound.message_type = "group"
            THEN /\ requests[i].endpoint = "send_group_msg"
                 /\ requests[i].id = ToStr(inbound.group_id[1])
            ELSE /\ requests[i].endpoint = "send_private_msg"
                 /\ requests[i].id = ToStr(inbound.user_id)

\* the target has one or more characters, all of them digits
OnlyDigits(to) == Len(to) >= 1 /\ \A i \in 1..Len(to) : IsDigit(to[i])

\* the target is a decimal integer: digits, or a minus sign and digits
SignedDigits(to) == OnlyDigits(to) \/ (Len(to) >= 2 /\ to[1] = "-" /\ OnlyDigits(Tail(to)))

\* an outbound adapter call has been made
OutboundCalled == dispatch = "idle" /\ requests # <<>>

\* C13 as stated: a target that starts with group: or consists only of
\* digits goes to send_group_msg with the prefix removed, every other target
\* to send_private_msg with a leading user: removed.
C13_GroupByPrefixOrDigits ==
    OutboundCalled =>
        IF StartsWith(outbound.to, GroupPrefix) \/ OnlyDigits(outbound.to)
        THEN /\ requests[1].endpoint = "send_group_msg"
             /\ requests[1].id = StripPrefix(outbound.to, GroupPrefix)
        ELSE /\ requests[1].endpoint = "send_private_msg"
             /\ requests[1].id = StripPrefix(outbound.to, UserPrefix)

\* C13 amended: a target that starts with group: or is a decimal integer
\* with an optional minus sign goes to send_group_msg with the prefix
\* removed, every other target to send_private_msg with a leading user:
\* removed.
C13_GroupByPrefixOrInteger ==
    OutboundCalled =>
        IF StartsWith(outbound.to, GroupPrefix) \/ SignedDigits(outbound.to)
        THEN /\ requests[1].endpoint = "send_group_msg"
             /\ requests[1].id = StripPrefix(outbound.to, GroupPrefix)
        ELSE /\ requests[1].endpoint = "send_private_msg"
             /\ requests[1].id = StripPrefix(outbound.to, UserPrefix)

C13_Witness ==
    /\ OutboundCalled
    /\ outbound.to = <<"-", "7">>
    /\ requests[1].endpoint = "send_group_msg"

\* C14: a target that is a bare QQ number is sent as a private message to
\* that user.
C14_BareNumberIsPrivate ==
    (OutboundCalled /\ OnlyDigits(outbound.to)) =>
        /\ requests[1].endpoint = "send_private_msg"
        /\ requests[1].id = outbound.to

\* the first reply of the dispatch
FirstReply(i) == \A j \in ReplyRequests : i <= j

\* cfg.channels.qq.replyToMode with its default
EffectiveReplyToMode == IF replyToMode = Unset THEN "first" ELSE replyToMode

\* C15: a reply carries a reply-reference segment exactly when replyToMode
\* is all, or is first and the reply is the first of its dispatch.
C15_ReplyToModeGoverns ==
    \A i \in ReplyRequests :
        dispatch # "idle" =>
            (HasReplySegment(requests[i]) <=>
                \/ EffectiveReplyToMode = "all"
                \/ EffectiveReplyToMode = "first" /\ FirstReply(i))

\* the bridge failed the request: network error or a status outside 2xx
SendFailed(i) == requests[i].response \in {"network_error", "http_error"}

\* C16: a failed send stays inside the sender: every deliver callback returns
\* normally, dispatchQQMessage rejects only when the pipeline itself did
\* (never after a fallback attempt), and each reply and the fallback is
\* requested once, failed or not.
C16_SendFailureContained ==
    /\ \A k \in CallbackIds : pipeline[k].settled = "returns"
    /\ dispatch = "rejected" => FallbackRequests = {}
    /\ dispatch # "idle" =>
           /\ Cardinality(ReplyRequests) = Cardinality(FinalTextReplies)
           /\ Cardinality(FallbackRequests) <= 1

C16_Witness ==
    /\ dispatch = "done"
    /\ \E i \in ReplyRequests : SendFailed(i)
    /\ \E i \in FallbackRequests : SendFailed(i)

(***************************************************************************)
(* Part 3.  The account resolver, src/src/qq/accounts.ts.  The process     *)
(* environment, the token file and the routing module (bindings,           *)
(* normalizeAccountId) are the environment.  An optional setting is None   *)
(* when absent and <<v>> when it has the value v.                          *)
(***************************************************************************)
Whitespace == {" ", "\n"}

RECURSIVE TrimStart(_)
TrimStart(s) == IF s # <<>> /\ Head(s) \in Whitespace THEN TrimStart(Tail(s)) ELSE s

RECURSIVE TrimEnd(_)
TrimEnd(s) ==
    IF s # <<>> /\ s[Len(s)] \in Whitespace THEN TrimEnd(SubSeq(s, 1, Len(s) - 1)) ELSE s

\* s.trim()
Trim(s) == TrimEnd(TrimStart(s))

UpperCase == <<"A", "B", "C", "D", "E", "F", "G", "H", "I", "J", "K", "L", "M",
               "N", "O", "P", "Q", "R", "S", "T", "U", "V", "W", "X", "Y", "Z">>
LowerCase == <<"a", "b", "c", "d", "e", "f", "g", "h", "i", "j", "k", "l", "m",
               "n", "o", "p", "q", "r", "s", "t", "u", "v", "w", "x", "y", "z">>

ToLowerChar(c) ==
    IF \E i \in DOMAIN UpperCase : UpperCase[i] = c
    THEN LowerCase[CHOOSE i \in DOMAIN UpperCase : UpperCase[i] = c]
    ELSE c

\* s.toLowerCase()
ToLowerCase(s) == [i \in 1..Len(s) |-> ToLowerChar(s[i])]

DEFAULT_ACCOUNT_ID == <<"d", "e", "f", "a", "u", "l", "t">>

\* normalizeAccountId(value) of routing/session-key.js for ids made of
\* letters: undefined and blank give the default id, otherwise the value
\* trimmed and lower-cased
NormalizeAccountId(opt) ==
    LET trimmed == IF opt = None THEN <<>> ELSE Trim(opt[1])
    IN  IF trimmed = <<>> THEN DEFAULT_ACCOUNT_ID ELSE ToLowerCase(trimmed)

\* a.localeCompare(b) < 0 for ids of lower-case letters
RECURSIVE Precedes(_, _)
Precedes(a, b) ==
    IF a = <<>> THEN b # <<>>
    ELSE IF b = <<>> THEN FALSE
    ELSE IF Head(a) = Head(b) THEN Precedes(Tail(a), Tail(b))
    ELSE (CHOOSE i \in DOMAIN LowerCase : LowerCase[i] = Head(a))
             < (CHOOSE i \in DOMAIN LowerCase : LowerCase[i] = Head(b))

\* ids.sort((a, b) => a.localeCompare(b)) of an array without duplicates
SortIds(ids) ==
    CHOOSE seq \in [1..Cardinality(ids) -> ids] :
        \A i, j \in 1..Cardinality(ids) : i < j => Precedes(seq[i], seq[j])

\* mutant: the empty key is normalised like every other key
ListConfiguredAccountIds_KeepsEmptyKey(c) ==
    {NormalizeAccountId(<<key>>) : key \in DOMAIN c.accounts}

\* listConfiguredAccountIds(cfg): the set it collects
ListConfiguredAccountIds(c) ==
    {NormalizeAccountId(<<key>>) : key \in {k \in DOMAIN c.accounts : k # <<>>}}

\* listQQAccountIds(cfg)
ListQQAccountIds(c, b) ==
    LET ids == ListConfiguredAccountIds(c) \cup b.ids
    IN  IF ids = {} THEN <<DEFAULT_ACCOUNT_ID>> ELSE SortIds(ids)

\* resolveDefaultQQAccountId(cfg)
ResolveDefaultQQAccountId(c, b) ==
    IF b.default # None /\ b.default[1] # <<>>
    THEN b.default[1]
    ELSE LET ids == ListQQAccountIds(c, b)
         IN  IF \E i \in 1..Len(ids) : ids[i] = DEFAULT_ACCOUNT_ID
             THEN DEFAULT_ACCOUNT_ID
             ELSE ids[1]

\* resolveAccountConfig(cfg, accountId): the entry under the id itself, else
\* the entry of the first key that normalises to the same id (the
\* configurations below have at most one such key), else undefined
ResolveAccountConfig(c, accountId) ==
    IF accountId \in DOMAIN c.accounts
    THEN <<c.accounts[accountId]>>
    ELSE LET matches == {key \in DOMAIN c.accounts :
                            NormalizeAccountId(<<key>>) = NormalizeAccountId(<<accountId>>)}
         IN  IF matches = {} THEN None ELSE <<c.accounts[CHOOSE key \in matches : TRUE]>>

\* one field of { ...base, ...account }
MergedField(c, entry, field) ==
    IF entry # None /\ entry[1][field] # None THEN entry[1][field] ELSE c[field]

\* mergeQQAccountConfig(cfg, accountId)
MergeQQAccountConfig(c, accountId) ==
    LET entry == ResolveAccountConfig(c, accountId)
    IN  [enabled |-> MergedField(c, entry, "enabled"),
         httpUrl |-> MergedField(c, entry, "httpUrl"),
         tokenFile |-> MergedField(c, entry, "tokenFile"),
         accessToken |-> MergedField(c, entry, "accessToken")]

\* opt?.trim() is a non-empty string
TrimsToText(opt) == opt # None /\ Trim(opt[1]) # <<>>

\* mutant: the inline token is tried before the token file
ResolveQQAccessToken_ConfigBeforeFile(c, accountId) ==
    LET merged == MergeQQAccountConfig(c, accountId)
    IN  IF TrimsToText(envToken)
        THEN [token |-> Trim(envToken[1]), source |-> "env"]
        ELSE IF TrimsToText(merged.accessToken)
        THEN [token |-> Trim(merged.accessToken[1]), source |-> "config"]
        ELSE IF merged.tokenFile # None /\ merged.tokenFile[1] # <<>>
                /\ TrimsToText(tokenFileContent)
        THEN [token |-> Trim(tokenFileContent[1]), source |-> "tokenFile"]
        ELSE [token |-> <<>>, source |-> "none"]

\* resolveQQAccessToken(cfg, accountId)
ResolveQQAccessToken(c, accountId) ==
    LET merged == MergeQQAccountConfig(c, accountId)
    IN  IF TrimsToText(envToken)
        THEN [token |-> Trim(envToken[1]), source |-> "env"]
        ELSE IF merged.tokenFile # None /\ merged.tokenFile[1] # <<>>
                /\ TrimsToText(tokenFileContent)
        THEN [token |-> Trim(tokenFileContent[1]), source |-> "tokenFile"]
        ELSE IF TrimsToText(merged.accessToken)
        THEN [token |-> Trim(merged.accessToken[1]), source |-> "config"]
        ELSE [token |-> <<>>, source |-> "none"]

\* "http://localhost:3000"
DefaultHttpUrl == <<"h", "t", "t", "p", ":", "/", "/", "l", "o", "c", "a", "l", "h",
                    "o", "s", "t", ":", "3", "0", "0", "0">>

\* mutant: the account's own flag decides alone
AccountEnabled_IgnoresBase(c, accountId) ==
    MergedField([c EXCEPT !.enabled = None], ResolveAccountConfig(c, accountId), "enabled")
        # <<FALSE>>

\* `baseEnabled && accountEnabled`, lines 107-113
AccountEnabled(c, accountId) ==
    /\ c.enabled # <<FALSE>>
    /\ MergeQQAccountConfig(c, accountId).enabled # <<FALSE>>

\* the closure resolve(accountId), lines 109-142
Resolve(c, accountId) ==
    LET merged == MergeQQAccountConfig(c, accountId)
        tokenResolution == ResolveQQAccessToken(c, accountId)
    IN  [accountId |-> accountId,
         enabled |-> AccountEnabled(c, accountId),
         httpUrl |-> IF TrimsToText(merged.httpUrl) THEN Trim(merged.httpUrl[1])
                     ELSE DefaultHttpUrl,
         accessToken |-> tokenResolution.token,
         tokenSource |-> tokenResolution.source]

\* mutant: the fallback account is returned whether or not it has a token
ResolveQQAccount_AnyFallback(c, b, accountId) ==
    LET primary == Resolve(c, NormalizeAccountId(accountId))
        fallbackId == ResolveDefaultQQAccountId(c, b)
    IN  IF TrimsToText(accountId) THEN primary
        ELSE IF primary.tokenSource # "none" \/ primary.httpUrl # DefaultHttpUrl THEN primary
        ELSE IF fallbackId = primary.accountId THEN primary
        ELSE Resolve(c, fallbackId)

\* resolveQQAccount({cfg, accountId})
ResolveQQAccount(c, b, accountId) ==
    LET primary == Resolve(c, NormalizeAccountId(accountId))
        fallbackId == ResolveDefaultQQAccountId(c, b)
    IN  IF TrimsToText(accountId) THEN primary
        ELSE IF primary.tokenSource # "none" \/ primary.httpUrl # DefaultHttpUrl THEN primary
        ELSE IF fallbackId = primary.accountId THEN primary
        ELSE IF Resolve(c, fallbackId).tokenSource # "none" THEN Resolve(c, fallbackId)
        ELSE primary

(***************************************************************************)
(* The configurations, environments and calls tried.                       *)
(***************************************************************************)
Blank == <<" ">>
WorkId == <<"w", "o", "r", "k">>
WorkKey == <<"W", "o", "r", "k">>
TeamId == <<"t", "e", "a", "m">>
TokenFilePath == <<"/", "t">>
CustomHttpUrl == <<"h", "t", "t", "p", ":", "/", "/", "n", ":", "1">>

Flags == {None, <<TRUE>>, <<FALSE>>}

\* QQ_ACCESS_TOKEN: unset, a token with white space around it
EnvTokens == {None, <<<<" ", "e", "\n">>>>}

\* the token file: unreadable, empty but for a newline, a token and a newline
TokenFileContents == {None, <<<<"\n">>>>, <<<<"f", "\n">>>>}

\* bindings of agents to qq accounts: none, work bound to another agent,
\* work bound to the default agent
BindingSets ==
    {[ids |-> {}, default |-> None],
     [ids |-> {WorkId}, default |-> None],
     [ids |-> {WorkId}, default |-> <<WorkId>>]}

\* entries of channels.qq.accounts; httpUrl is set at the channel level only
AccountConfigs ==
    [enabled : Flags, httpUrl : {None},
     tokenFile : {None, <<TokenFilePath>>},
     accessToken : {None, <<Blank>>, <<<<"c", " ">>>>}]

\* the default entry is tried with fewer settings
DefaultAccountConfigs ==
    {a \in AccountConfigs : /\ a.enabled # <<TRUE>>
                            /\ a.tokenFile = None
                            /\ a.accessToken # <<Blank>>}

\* no setting at all
EmptyAccount == [enabled |-> None, httpUrl |-> None, tokenFile |-> None, accessToken |-> None]

\* accounts with settings: an optional "default" and an optional "Work"
SettingAccountMaps ==
    UNION {{f \in [D -> AccountConfigs] :
                DEFAULT_ACCOUNT_ID \in D => f[DEFAULT_ACCOUNT_ID] \in DefaultAccountConfigs} :
           D \in SUBSET {DEFAULT_ACCOUNT_ID, WorkKey}}

\* accounts without settings under keys that need normalising: the empty
\* key, a blank-padded key, two keys of one id
KeyAccountMaps ==
    {[key \in D |-> EmptyAccount] :
        D \in SUBSET {<<>>, DEFAULT_ACCOUNT_ID, WorkKey, WorkId, Blank \o TeamId}}

QQConfigs ==
    [enabled : Flags, httpUrl : {None, <<CustomHttpUrl>>}, tokenFile : {None},
     accessToken : {None, <<<<"b">>>>}, accounts : SettingAccountMaps]
    \cup [enabled : {None}, httpUrl : {None}, tokenFile : {None}, accessToken : {None},
          accounts : KeyAccountMaps]

\* params.accountId: undefined, blank, the two account ids
RequestedIds == {None, <<Blank>>, <<DEFAULT_ACCOUNT_ID>>, <<WorkKey>>}

\* a call of resolveQQAccount({cfg, accountId})
ResolveQQAccountCall(accountId) ==
    /\ resolved = NoAccount
    /\ listed = None
    /\ requested' = accountId
    /\ resolved' = ResolveQQAccount(qqCfg, bindings, accountId)
    /\ UNCHANGED <<monitorVars, outboundVars, gatewayVars, qqCfg, envToken, tokenFileContent, bindings,
                   listed>>

\* a call of listQQAccountIds(cfg)
ListQQAccountIdsCall ==
    /\ resolved = NoAccount
    /\ listed = None
    /\ listed' = <<ListQQAccountIds(qqCfg, bindings)>>
    /\ UNCHANGED <<monitorVars, outboundVars, gatewayVars, qqCfg, envToken, tokenFileContent, bindings,
                   requested, resolved>>

AccountInit ==
    /\ MonitorIdle
    /\ OutboundIdle
    /\ GatewayIdle
    /\ qqCfg \in QQConfigs
    /\ envToken \in EnvTokens
    /\ tokenFileContent \in TokenFileContents
    /\ bindings \in BindingSets
    /\ requested = None
    /\ resolved = NoAccount
    /\ listed = None

AccountNext ==
    \/ \E accountId \in RequestedIds : ResolveQQAccountCall(accountId)
    \/ ListQQAccountIdsCall

\* one call of the resolver under a configuration and an environment
AccountSpec == AccountInit /\ [][AccountNext]_vars

(***************************************************************************)
(* Properties of the account resolver.                                     *)
(***************************************************************************)
\* resolveQQAccount has returned
AccountResolved == resolved # NoAccount

\* the entry of channels.qq.accounts that belongs to the id, None without one
AccountEntry(id) == ResolveAccountConfig(qqCfg, id)

\* a setting of the account: its own entry's value, else the channel's
Setting(id, field) ==
    IF AccountEntry(id) # None /\ AccountEntry(id)[1][field] # None
    THEN AccountEntry(id)[1][field]
    ELSE qqCfg[field]

\* the text an optional string holds once trimmed, <<>> when absent
TextOf(opt) == IF opt = None THEN <<>> ELSE Trim(opt[1])

\* what each token source offers the account, in the order of precedence
TokenOffers(id) ==
    <<[source |-> "env", token |-> TextOf(envToken)],
      [source |-> "tokenFile",
       token |-> IF Setting(id, "tokenFile") = None THEN <<>> ELSE TextOf(tokenFileContent)],
      [source |-> "config", token |-> TextOf(Setting(id, "accessToken"))]>>

\* the sources that offer a token
Offering(id) == {i \in 1..3 : TokenOffers(id)[i].token # <<>>}

\* C17: the token of the resolved account is the one of the first source
\* that offers a non-empty token, in the order process override, token file,
\* inline accessToken, and tokenSource names that source; when none offers
\* one the token is empty and tokenSource is none.
C17_TokenPrecedence ==
    AccountResolved =>
        LET id == resolved.accountId
        IN  IF Offering(id) = {}
            THEN resolved.accessToken = <<>> /\ resolved.tokenSource = "none"
            ELSE \E w \in Offering(id) :
                    /\ \A i \in Offering(id) : w <= i
                    /\ resolved.accessToken = TokenOffers(id)[w].token
                    /\ resolved.tokenSource = TokenOffers(id)[w].source

C17_Witness ==
    /\ AccountResolved
    /\ resolved.tokenSource = "config"
    /\ Setting(resolved.accountId, "tokenFile") # None
    /\ tokenFileContent = <<<<"\n">>>>

\* no account id was requested: undefined or blank
Unrequested == TextOf(requested) = <<>>

\* the account resolved first: the requested id, the default id without one
PrimaryId == NormalizeAccountId(requested)

\* the account has a token from some source
HasToken(id) == Offering(id) # {}

\* the account's httpUrl is the default: not set, blank, or the default itself
HasDefaultHttpUrl(id) == TextOf(Setting(id, "httpUrl")) \in {<<>>, DefaultHttpUrl}

\* the configured default account id
ConfiguredDefaultId == ResolveDefaultQQAccountId(qqCfg, bindings)

\* C18: the configured default account is returned exactly when no id was
\* requested, the primary account has no token and the default httpUrl, and
\* the configured default account has a token; otherwise the primary
\* account is returned.
C18_FallbackToConfiguredDefault ==
    AccountResolved =>
        resolved.accountId =
            IF /\ Unrequested
               /\ ~HasToken(PrimaryId)
               /\ HasDefaultHttpUrl(PrimaryId)
               /\ HasToken(ConfiguredDefaultId)
            THEN ConfiguredDefaultId
            ELSE PrimaryId

C18_Witness ==
    /\ AccountResolved
    /\ Unrequested
    /\ resolved.accountId = WorkId
    /\ resolved.tokenSource = "tokenFile"

\* C19: the resolved account is enabled exactly when neither the channel's
\* enabled flag nor the flag of the account's own entry is false.
C19_EnabledNeedsBoth ==
    AccountResolved =>
        (resolved.enabled <=>
            /\ qqCfg.enabled # <<FALSE>>
            /\ (AccountEntry(resolved.accountId) = None
                \/ AccountEntry(resolved.accountId)[1].enabled # <<FALSE>>))

C19_Witness ==
    /\ AccountResolved
    /\ qqCfg.enabled = <<FALSE>>
    /\ AccountEntry(resolved.accountId) # None
    /\ AccountEntry(resolved.accountId)[1].enabled = <<TRUE>>
    /\ ~resolved.enabled

\* the ids in the returned array
ListedIds == {listed[1][i] : i \in 1..Len(listed[1])}

\* the array is not empty and names no id twice
ListedOnce ==
    /\ listed[1] # <<>>
    /\ \A i, j \in 1..Len(listed[1]) : listed[1][i] = listed[1][j] => i = j

\* C20 as stated: the array holds, once each, the normalised configured
\* account keys and the bound account ids; it is never empty, and with no
\* key and no binding it is exactly the default id.
C20_UnionOfKeysAndBindings ==
    listed # None =>
        LET ids == {NormalizeAccountId(<<key>>) : key \in DOMAIN qqCfg.accounts}
                   \cup bindings.ids
        IN  /\ ListedOnce
            /\ ListedIds = IF ids = {} THEN {DEFAULT_ACCOUNT_ID} ELSE ids

\* C20 amended: the array holds, once each, the normalised non-empty
\* configured account keys and the bound account ids; it is never empty, and
\* without any of these it is exactly the default id.
C20_UnionOfNonEmptyKeysAndBindings ==
    listed # None =>
        LET ids == {NormalizeAccountId(<<key>>) : key \in DOMAIN qqCfg.accounts \ {<<>>}}
                   \cup bindings.ids
        IN  /\ ListedOnce
            /\ ListedIds = IF ids = {} THEN {DEFAULT_ACCOUNT_ID} ELSE ids

C20_Witness ==
    /\ listed # None
    /\ DOMAIN qqCfg.accounts = {<<>>, WorkKey, WorkId}
    /\ bindings.ids = {WorkId}
    /\ listed[1] = <<WorkId>>

(***************************************************************************)
(* Part 4.  The parser alone: parseQQInboundMessage applied to one wire    *)
(* event, whose fields may be missing or malformed.                        *)
(***************************************************************************)
\* segments of one message array
MaxSegments == 2

\* event.sender: absent, or an object whose nickname is absent, "" or "Al"
\* and whose card is absent, "" or "Bo"
Senders ==
    {<<>>} \cup {<<sd>> : sd \in [nickname : {<<>>, <<<<>>>>, <<<<"A", "l">>>>},
                                  card : {<<>>, <<<<>>>>, <<<<"B", "o">>>>}]}

\* segments of a message array: text "a", text "b", a text segment whose text
\* is the number 5, a text segment without data, an image, a reply with id
\* "9", a reply with id 8, a reply without data
Segments ==
    {[type |-> "text", data |-> <<[text |-> Str(<<"a">>), id |-> Undef]>>],
     [type |-> "text", data |-> <<[text |-> Str(<<"b">>), id |-> Undef]>>],
     [type |-> "text", data |-> <<[text |-> Num(5), id |-> Undef]>>],
     [type |-> "text", data |-> <<>>],
     [type |-> "image", data |-> <<[text |-> Undef, id |-> Undef]>>],
     [type |-> "reply", data |-> <<[text |-> Undef, id |-> Str(<<"9">>)]>>],
     [type |-> "reply", data |-> <<[text |-> Undef, id |-> Num(8)]>>],
     [type |-> "reply", data |-> <<>>]}

\* event.message: absent, the string "" or "hi", or an array of segments
Messages ==
    {[kind |-> "missing", text |-> <<>>, segments |-> <<>>]}
    \cup {[kind |-> "string", text |-> t, segments |-> <<>>] : t \in {<<>>, <<"h", "i">>}}
    \cup {[kind |-> "array", text |-> <<>>, segments |-> segs] :
             segs \in UNION {[1..n -> Segments] : n \in 0..MaxSegments}}

\* wire events of user 7; sender.user_id is absent when the sender is
WireEvents ==
    {ev \in [message_type : {"private", "group"}, group_id : {<<>>, <<100>>},
             user_id : {7}, sender_user_id : SenderUserIds, message_id : {55},
             sender : Senders, message : Messages] :
        ev.sender = <<>> => ev.sender_user_id = <<>>}

\* const message = parseQQInboundMessage(event, account.accountId)
ParseCall ==
    /\ parsed = NotParsed
    /\ parsed' = IF ParseThrows(inbound)
                 THEN [outcome |-> "threw"]
                 ELSE [outcome |-> "returned", message |-> ParseQQInboundMessage(inbound)]
    /\ UNCHANGED <<monitorVars, outboundVars, accountVars, probe>>

ParserInit ==
    /\ MonitorIdle
    /\ AccountsIdle
    /\ GatewayIdle
    /\ inbound \in WireEvents
    /\ replyToMode = Unset
    /\ dispatch = "idle"
    /\ chat = NoChat
    /\ deliveryState = [delivered |-> FALSE, skippedNonSilent |-> 0]
    /\ pipeline = <<>>
    /\ requests = <<>>
    /\ outbound = NoOutbound

\* one call of the parser on one wire event
ParserSpec == ParserInit /\ [][ParseCall]_vars

(***************************************************************************)
(* Properties of the parser.                                               *)
(***************************************************************************)
\* parseQQInboundMessage has returned a message
ParseReturned == parsed.outcome = "returned"

\* C21: parseQQInboundMessage never throws, whatever fields the wire event
\* lacks
C21_ParseNeverThrows == parsed.outcome # "threw"

\* C22: the sender name of a parsed message is the card when it is not
\* empty, otherwise the nickname when it is not empty, otherwise the user id
\* as a string
C22_CardThenNicknameThenId ==
    ParseReturned =>
        parsed.message.senderName =
            IF TruthyText(inbound.sender[1].card) THEN inbound.sender[1].card[1]
            ELSE IF TruthyText(inbound.sender[1].nickname) THEN inbound.sender[1].nickname[1]
            ELSE ToStr(inbound.user_id)

\* the event is a group message: its type is group and it names its group
IsGroupMessage == inbound.message_type = "group" /\ inbound.group_id # <<>>

\* C23: the peer id of a group message is the group id, followed by ":" and
\* the sender's user id when the sender carries one; the peer id of any other
\* message is the user id as a string
C23_PeerId ==
    ParseReturned =>
        /\ IsGroupMessage /\ inbound.sender_user_id # <<>> =>
              parsed.message.peerId =
                  ToStr(inbound.group_id[1]) \o <<":">> \o ToStr(inbound.sender_user_id[1])
        /\ IsGroupMessage /\ inbound.sender_user_id = <<>> =>
              parsed.message.peerId = ToStr(inbound.group_id[1])
        /\ ~IsGroupMessage => parsed.message.peerId = ToStr(inbound.user_id)

C23_Witness ==
    /\ ParseReturned
    /\ IsGroupMessage
    /\ inbound.sender_user_id = <<7>>
    /\ parsed.message.peerId = <<"1", "0", "0", ":", "7">>

\* what one segment adds to the text: its text when it is a text segment
\* that carries a string, nothing otherwise
Contribution(seg) ==
    IF seg.type = "text" /\ seg.data # <<>> /\ seg.data[1].text.t = "string"
    THEN seg.data[1].text.s
    ELSE <<>>

RECURSIVE Concatenation(_)
Concatenation(segs) ==
    IF segs = <<>> THEN <<>>
    ELSE Contribution(Head(segs)) \o Concatenation(Tail(segs))

\* C24: the text of a string message is that string; the text of a segment
\* array is the texts of its text segments one after the other, in the
\* array's order, with nothing between them and nothing from other segments
C24_TextExtraction ==
    ParseReturned =>
        /\ inbound.message.kind = "string" => parsed.message.text = inbound.message.text
        /\ inbound.message.kind = "array" =>
              parsed.message.text = Concatenation(inbound.message.segments)

C24_Witness ==
    /\ ParseReturned
    /\ inbound.message.kind = "array"
    /\ Len(inbound.message.segments) = 2
    /\ inbound.message.segments[1].type = "text"
    /\ inbound.message.segments[2].type = "text"
    /\ parsed.message.text = <<"a", "b">>

\* positions of the reply segments of the event's array
ReplyPositions ==
    {i \in 1..Len(inbound.message.segments) : inbound.message.segments[i].type = "reply"}

\* the first of them
FirstReplyPosition == CHOOSE i \in ReplyPositions : \A j \in ReplyPositions : i <= j

\* C25: replyToId is undefined for a string message and for an array without
\* a reply segment; otherwise it is the id, as a string, of the first reply
\* segment of the array, wherever that segment stands
C25_ReplyToId ==
    ParseReturned =>
        parsed.message.replyToId =
            IF inbound.message.kind # "array" \/ ReplyPositions = {} THEN <<>>
            ELSE ReplySegmentId(inbound.message.segments[FirstReplyPosition])

C25_Witness ==
    /\ ParseReturned
    /\ inbound.message.kind = "array"
    /\ Len(inbound.message.segments) = 2
    /\ inbound.message.segments[1].type = "text"
    /\ inbound.message.segments[2].type = "reply"
    /\ parsed.message.replyToId = <<<<"9">>>>

(***************************************************************************)
(* Part 5.  probe.ts: probeQQ(account, timeoutMs) makes two POSTs to the   *)
(* bridge one after the other, get_login_info and get_status, inside one   *)
(* try block.  The bridge and the timer are the environment.               *)
(***************************************************************************)
\* account.httpUrl with and without a trailing slash, account.accessToken
\* empty or set
ProbeAccounts ==
    [httpUrl : {<<"http://h">>, <<"http://h", "/">>}, accessToken : {"", "tok"}]

\* how the get_login_info call ends: fetch rejects, the timer aborts it, an
\* HTTP error status, a body that is not JSON, or a JSON body whose
\* data.user_id and data.nickname may be absent (<<>>)
FirstOutcomes ==
    [kind : {"network_error", "aborted", "http_error", "not_json"},
     user_id : {<<>>}, nickname : {<<>>}]
    \cup [kind : {"json"}, user_id : {<<>>, <<42>>, <<43>>}, nickname : {<<>>, <<"Bot">>}]

\* how the get_status call ends: fetch rejects, a body that is not JSON, or
\* a JSON body (under any HTTP status) whose data.online may be absent
SecondOutcomes ==
    [kind : {"network_error", "not_json"}, httpOk : {TRUE}, online : {<<>>}]
    \cup [kind : {"json"}, httpOk : BOOLEAN, online : {<<>>, <<TRUE>>, <<FALSE>>}]

\* { ok: false, error }
ProbeFailure(error) ==
    [ok |-> FALSE, selfId |-> 0, nickname |-> "", status |-> "", error |-> error]

\* lines 20-37: the timer is set (the callers pass 2500 or leave the default
\* of 5000), the URL and the headers are built, the first fetch is under way
ProbeStart(acct, timeoutMs) ==
    /\ probe = NoProbe
    /\ LET base == IF acct.httpUrl[Len(acct.httpUrl)] = "/"
                   THEN SubSeq(acct.httpUrl, 1, Len(acct.httpUrl) - 1)
                   ELSE acct.httpUrl
       IN probe' = [phase |-> "first", httpUrl |-> acct.httpUrl,
                    url |-> base \o <<"/get_login_info">>,
                    authorization |-> IF acct.accessToken # ""
                                      THEN <<"Bearer " \o acct.accessToken>> ELSE <<>>,
                    timeoutMs |-> timeoutMs, timer |-> "set", selfId |-> 0, nickname |-> "",
                    second |-> "none", result |-> ProbeFailure("")]
    /\ UNCHANGED <<monitorVars, outboundVars, accountVars, parsed>>

\* lines 33-67: the first call ends; on an identity the second fetch starts
FirstResponds(r) ==
    /\ probe.phase = "first"
    /\ probe' =
         IF r.kind \in {"network_error", "aborted", "not_json"}
         THEN [probe EXCEPT !.phase = "done", !.result = ProbeFailure(r.kind),
                            !.timer = IF r.kind = "not_json" THEN "cleared" ELSE
                                      IF r.kind = "aborted" THEN "fired" ELSE "set"]
         ELSE IF r.kind = "http_error"
         THEN [probe EXCEPT !.phase = "done", !.timer = "cleared",
                            !.result = ProbeFailure("HTTP status")]
         ELSE IF ~Truthy(r.user_id)
         THEN [probe EXCEPT !.phase = "done", !.timer = "cleared",
                            !.result = ProbeFailure("Invalid response from NapCatQQ API")]
         ELSE [probe EXCEPT !.phase = "second", !.timer = "cleared",
                            !.url = SubSeq(probe.url, 1, Len(probe.url) - 1)
                                        \o <<"/get_status">>,
                            !.selfId = r.user_id[1],
                            !.nickname = IF r.nickname = <<>> THEN "" ELSE r.nickname[1]]
    /\ UNCHANGED <<monitorVars, outboundVars, accountVars, parsed>>

\* lines 64-87: the second call ends
SecondResponds(r) ==
    /\ probe.phase = "second"
    /\ probe' =
         [probe EXCEPT
            !.phase = "done",
            !.second = r.kind,
            !.result = IF r.kind \in {"network_error", "not_json"}
                       THEN ProbeFailure(r.kind)
                       ELSE [ok |-> TRUE, selfId |-> probe.selfId,
                             nickname |-> probe.nickname,
                             status |-> IF r.online = <<TRUE>> THEN "online" ELSE "offline",
                             error |-> ""]]
    /\ UNCHANGED <<monitorVars, outboundVars, accountVars, parsed>>

ProbeInit == MonitorIdle /\ OutboundIdle /\ AccountsIdle /\ GatewayIdle

ProbeNext ==
    \/ \E acct \in ProbeAccounts, timeoutMs \in {2500, 5000} : ProbeStart(acct, timeoutMs)
    \/ \E r \in FirstOutcomes : FirstResponds(r)
    \/ \E r \in SecondOutcomes : SecondResponds(r)

\* one call of probeQQ
ProbeSpec == ProbeInit /\ [][ProbeNext]_vars

(***************************************************************************)
(* Properties of the probe.                                                *)
(***************************************************************************)
\* C26: when the get_status call fails (the fetch rejects, or the body is not
\* JSON) the probe still succeeds: ok is true, selfId and nickname are those
\* of the first call, and status holds a best-effort value
C26_SecondFailureTolerated ==
    probe.phase = "done" /\ probe.second \in {"network_error", "not_json"} =>
        /\ probe.result.ok
        /\ probe.result.selfId = probe.selfId
        /\ probe.result.nickname = probe.nickname
        /\ probe.result.status \in {"online", "offline"}

(***************************************************************************)
(* Part 6.  Further properties of the monitor.                             *)
(***************************************************************************)
\* a socket error is forwarded to onError in this step
ErrorForwarded == onErrorCalls' # onErrorCalls

\* a reconnect is scheduled in this step
ReconnectScheduled == Len(timers') > Len(timers)

\* a socket emits "close" in this step
CloseEmitted ==
    \E s \in SocketIds : sockets[s].state # "closed" /\ sockets'[s].state = "closed"

\* C27: a socket error is forwarded to onError once and the handler does
\* nothing else: no close() call on a socket, no new socket, the closing flag
\* and the reconnect timer stay as they are; a reconnect is scheduled only in
\* a step in which a socket emits "close"
C27_ErrorOnlyForwards ==
    [][ /\ ErrorForwarded =>
              /\ onErrorCalls' = onErrorCalls + 1
              /\ Len(sockets') = Len(sockets)
              /\ \A s \in SocketIds : sockets'[s].closeCalls = sockets[s].closeCalls
              /\ isClosing' = isClosing
              /\ timers' = timers
              /\ reconnectTimer' = reconnectTimer
              /\ ws' = ws
        /\ ReconnectScheduled => CloseEmitted /\ ~ErrorForwarded ]_vars

\* an error was forwarded; nothing is scheduled until the close event comes
C27_Witness ==
    /\ onErrorCalls = 1
    /\ ~isClosing
    /\ timers = <<>>
    /\ sockets # <<>>
    /\ sockets[1].state = "closing"
    /\ sockets[1].closeCalls = 0
    /\ ws = 1

\* a callback of frame f throws or rejects in this step
CallbackFails(f) ==
    /\ frames'[f].ev = "failed" \/ frames'[f].msg = "failed"
    /\ f \in FrameIds => frames[f].ev # "failed" /\ frames[f].msg # "failed"

\* what frame f had logged before this step
LoggedBefore(f) == IF f \in FrameIds THEN frames[f].logged ELSE 0

\* C30: a callback (onEvent or onMessage) that throws or rejects while a
\* frame is handled is caught by the frame handler: the failure is logged
\* once, no socket is closed, onError is not invoked, no reconnect is
\* scheduled and the closing flag stays; every frame that parses, whatever
\* failed before it, has onEvent invoked for it
C30_CallbackFailureContained ==
    [][ /\ \A f \in 1..Len(frames') :
              ParsesAsJSON(frames'[f].kind) /\ CallbackFails(f) =>
                  /\ frames'[f].logged = LoggedBefore(f) + 1
                  /\ HandlerDone(frames'[f])
                  /\ sockets' = sockets
                  /\ onErrorCalls' = onErrorCalls
                  /\ timers' = timers
                  /\ reconnectTimer' = reconnectTimer
                  /\ isClosing' = isClosing
                  /\ ws' = ws
        /\ \A f \in 1..Len(frames') :
              ParsesAsJSON(frames'[f].kind) => frames'[f].evCalls = 1 ]_vars

\* onMessage rejected for the first frame; the next frame came on the same
\* socket, still open, and reached both callbacks
C30_Witness ==
    /\ Len(frames) = 2
    /\ frames[1].kind = "message"
    /\ frames[1].msg = "failed"
    /\ frames[1].logged = 1
    /\ frames[2].sock = frames[1].sock
    /\ frames[2].kind = "message"
    /\ frames[2].ev = "ok"
    /\ frames[2].msg = "ok"
    /\ sockets[frames[1].sock].state = "open"
    /\ sockets[frames[1].sock].closeCalls = 0
    /\ onErrorCalls = 0
    /\ timers = <<>>

(***************************************************************************)
(* Further properties of the outbound side.                                *)
(***************************************************************************)
\* 1 when the call's argument is given, 0 when it is not
ReplyGiven == IF outbound.replyToId # <<>> THEN 1 ELSE 0
MediaGiven == IF outbound.mediaUrl # "" THEN 1 ELSE 0
TextGiven == IF outbound.text # "" THEN 1 ELSE 0

\* C28: the message array of a send, to a group or to a user alike, holds a
\* reply segment first exactly when a replyToId is given, then an image
\* segment exactly when a mediaUrl is given, then a text segment last exactly
\* when the text is not empty, and nothing else
C28_SegmentOrder ==
    OutboundCalled =>
        /\ requests[1].endpoint \in {"send_group_msg", "send_private_msg"}
        /\ Len(requests[1].message) = ReplyGiven + MediaGiven + TextGiven
        /\ ReplyGiven = 1 =>
              requests[1].message[1] = [type |-> "reply", data |-> [id |-> outbound.replyToId]]
        /\ MediaGiven = 1 =>
              requests[1].message[ReplyGiven + 1] =
                  [type |-> "image", data |-> [file |-> outbound.mediaUrl]]
        /\ TextGiven = 1 =>
              requests[1].message[ReplyGiven + MediaGiven + 1] =
                  [type |-> "text", data |-> [text |-> outbound.text]]

\* a send to a group with all three segments
C28_Witness ==
    /\ OutboundCalled
    /\ requests[1].endpoint = "send_group_msg"
    /\ Len(requests[1].message) = 3
    /\ requests[1].message[1].type = "reply"
    /\ requests[1].message[2].type = "image"
    /\ requests[1].message[3].type = "text"

\* the bridge answered a reply with an HTTP success status
ReplyAccepted == \E i \in ReplyRequests : requests[i].response \in {"ok", "ok_no_id"}

\* C29 as stated: a completed dispatch in which a reply's HTTP send succeeded,
\* whatever the body of the answer, has sent no fallback
C29_HttpSuccessIsDelivered ==
    dispatch = "done" /\ ReplyAccepted => FallbackRequests = {}

\* C29: a reply counts as delivered exactly when the bridge answered it with
\* a message id; a completed dispatch with such a reply has sent no fallback,
\* and an answer without message id does not hold the fallback back
C29_MessageIdIsDelivered ==
    /\ deliveryState.delivered <=> ReplyDelivered
    /\ dispatch = "done" /\ ReplyDelivered => FallbackRequests = {}
    /\ dispatch = "done" /\ ReplyAccepted /\ ~ReplyDelivered /\ NonSilentSkipped =>
          FallbackRequests # {}

\* a reply got its message id after a non-silent skip: no fallback
C29_Witness ==
    /\ dispatch = "done"
    /\ NonSilentSkipped
    /\ ReplyDelivered
    /\ deliveryState.delivered
    /\ FallbackRequests = {}

====
